---- MODULE Spec2Model ----
(***************************************************************************)
(* The game-session engine of ws-backend.  Two variants of the server are  *)
(* modelled over the same state: src/index.js (a connection holds the      *)
(* admin role, tracked in adminId) and src/unnamed/part_000 (a static      *)
(* 'admin' player sits in the roster).  Every socket handler and every     *)
(* timer callback is one atomic action, as Node runs each to completion.   *)
(*                                                                         *)
(* JavaScript values: null is the empty sequence Null, a present value v   *)
(* is <<v>> (adminId, gameInterval, countdown, winner).  Strings that the  *)
(* code slices (names) are sequences of characters.                        *)
(***************************************************************************)
EXTENDS Integers, Sequences, FiniteSets, TLC

VARIABLES
  variant,       \* which server file is running: "index" or "part_000"
  sockets,       \* ids of the sockets whose handlers are registered
  nextSocket,    \* number of socket ids handed out so far
  players,       \* let players: the roster, in join order
  grid,          \* let grid: [length, squares], see GridAt
  timeLeft,      \* let timeLeft
  gameInterval,  \* let gameInterval: Null or <<handle of a round timer>>
  winner,        \* let winner
  countdown,     \* let countdown: Null or <<n>>
  adminId,       \* let adminId: Null or <<socket id>>
  timers,        \* the scheduled 1000 ms intervals, next to fire first
  lastBroadcast, \* payload of the last io.emit('gameState', ...)
  events,        \* number of client events handled so far
  lastEvent      \* the event handled last, with facts about the state before it

vars == <<variant, sockets, nextSocket, players, grid, timeLeft, gameInterval,
          winner, countdown, adminId, timers, lastBroadcast, events, lastEvent>>

----------------------------------------------------------------------------
(* Bounds and program constants *)

\* number of connections the environment opens over a run; socket ids are
\* never reused
MaxConn == 2

\* number of client events (connect, joinGame, claimSquare, disconnect) the
\* environment sends over a run; timer callbacks are not counted
MaxEvents == 4

GridSize == 100
RoundSeconds == 60
CooldownSeconds == 10
NameLimit == 15

Null == <<>>
Undefined == [undefined |-> TRUE]

Black == "#000000"
White == "#FFFFFF"
AdminSentinel == "admin"

Bob == <<"B", "o", "b">>
AdminName == <<"A", "d", "m", "i", "n">>
EmptyName == <<>>
\* a 16-character name: 15 x's and a y
Long16 == [i \in 1..16 |-> IF i <= 15 THEN "x" ELSE "y"]

SocketName == <<"s1", "s2", "s3", "s4", "s5">>

\* what clients send
NameInputs == {Bob, Long16}
ColorInputs == {Black, "#ff0000"}
SquareInputs == {0, 1, GridSize}
\* results of generateRandomColor
HslColors == {"hsl(0, 0%, 0%)", "hsl(120, 50%, 30%)"}

----------------------------------------------------------------------------
(* Small helpers for JavaScript idioms *)

Min(a, b) == IF a <= b THEN a ELSE b

\* the value inside a non-null reference
Val(x) == x[1]

\* Array.prototype.find with the predicate "id === id": index of the first
\* roster entry of that socket, 0 when there is none
FindById(ps, id) ==
  IF \E i \in 1..Len(ps) : ps[i].id = id
  THEN CHOOSE i \in 1..Len(ps) : ps[i].id = id /\ \A j \in 1..(i - 1) : ps[j].id # id
  ELSE 0

\* String.prototype.substring(0, 15)
Substring15(name) == SubSeq(name, 1, Min(Len(name), NameLimit))

\* x-- on a variable that may hold null: null coerces to 0
Decrement(x) == IF x = Null THEN <<-1>> ELSE <<Val(x) - 1>>

\* the session state a handler works on
State ==
  [players |-> players, grid |-> grid, timeLeft |-> timeLeft,
   gameInterval |-> gameInterval, winner |-> winner, countdown |-> countdown,
   adminId |-> adminId, timers |-> timers, lastBroadcast |-> lastBroadcast]

\* the handler's final state becomes the next state
Commit(st) ==
  /\ players' = st.players
  /\ grid' = st.grid
  /\ timeLeft' = st.timeLeft
  /\ gameInterval' = st.gameInterval
  /\ winner' = st.winner
  /\ countdown' = st.countdown
  /\ adminId' = st.adminId
  /\ timers' = st.timers
  /\ lastBroadcast' = st.lastBroadcast

----------------------------------------------------------------------------
(* Timers: setInterval(f, 1000) and clearInterval *)

\* a handle not held by any scheduled interval nor by gameInterval
FreshHandle(st) ==
  LET used == {st.timers[i].id : i \in 1..Len(st.timers)}
                \cup {st.gameInterval[i] : i \in 1..Len(st.gameInterval)}
  IN CHOOSE h \in 1..(Cardinality(used) + 1) :
       h \notin used /\ \A k \in 1..(h - 1) : k \in used

\* setInterval: the new interval fires after every interval already scheduled
SetInterval(ts, h, kind) == Append(ts, [id |-> h, kind |-> kind])

\* clearInterval(ref): ref is Null, or <<handle>> of a live or dead interval
ClearInterval(ts, ref) ==
  LET keep(t) == <<t.id>> # ref
  IN SelectSeq(ts, keep)

----------------------------------------------------------------------------
(* The initial grid and the snapshot *)

AdminSquare == [id |-> 0, color |-> Black, ownerId |-> AdminSentinel, ownerName |-> AdminName]

EmptySquare(i) == [id |-> i, color |-> White, ownerId |-> "", ownerName |-> EmptyName]

\* The array grid is kept as its length and the squares at the indices some
\* handler can write (square 0 and the indices clients send).  Every other
\* index below the length holds EmptySquare: from the initial fill, and
\* again after each grid.map.
Stored == SquareInputs \cup {0}

GridAt(g, i) == IF i \in DOMAIN g.squares THEN g.squares[i] ELSE EmptySquare(i)

\* the indices of the array
Indices(g) == 0..(g.length - 1)

InitialGrid ==
  [length |-> GridSize,
   squares |-> [i \in {j \in Stored : j < GridSize} |->
                  IF i = 0 THEN AdminSquare ELSE EmptySquare(i)]]

\* the object the winner variable refers to: a roster entry ([ref |-> index]),
\* an object outside the roster ([obj |-> record]), undefined or null
WinnerValue(st) ==
  IF st.winner = Null THEN Null
  ELSE IF st.winner = <<Undefined>> THEN <<Undefined>>
  ELSE IF "ref" \in DOMAIN Val(st.winner) THEN <<st.players[Val(st.winner).ref]>>
  ELSE <<Val(st.winner).obj>>

Snapshot(st) ==
  [grid |-> st.grid, players |-> st.players, timeLeft |-> st.timeLeft,
   countdown |-> st.countdown, winner |-> WinnerValue(st)]

broadcastGameState(st) == [st EXCEPT !.lastBroadcast = Snapshot(st)]

\* number of squares whose ownerId is id (an id is never the empty string)
Owned(g, id) == Cardinality({i \in DOMAIN g.squares : g.squares[i].ownerId = id})

\* calculateScores that forgets to write the scores back
calculateScores_Stale(st) == st

calculateScores(st) ==
  [st EXCEPT !.players = [i \in 1..Len(st.players) |->
     [st.players[i] EXCEPT !.score = Owned(st.grid, st.players[i].id)]]]

----------------------------------------------------------------------------
(* src/index.js: round start and round end *)

\* adminId ? players.find((p) => p.id === adminId)?.name || 'Admin' : 'Admin'
AdminSquareName(st) ==
  IF st.adminId = Null THEN AdminName
  ELSE LET i == FindById(st.players, Val(st.adminId))
       IN IF i = 0 \/ st.players[i].name = EmptyName THEN AdminName
          ELSE st.players[i].name

startGameTimer(st) ==
  LET cleared == ClearInterval(st.timers, st.gameInterval)
      scored == [i \in 1..Len(st.players) |->
                   [st.players[i] EXCEPT
                      !.score = IF <<st.players[i].id>> = st.adminId THEN 1 ELSE 0]]
      reset == [i \in DOMAIN st.grid.squares |->
                  IF i = 0
                  THEN [id |-> 0, color |-> Black,
                        ownerId |-> IF st.adminId = Null THEN AdminSentinel
                                    ELSE Val(st.adminId),
                        ownerName |-> AdminSquareName(st)]
                  ELSE EmptySquare(i)]
      s1 == broadcastGameState(
              [st EXCEPT !.timers = cleared, !.timeLeft = RoundSeconds,
                         !.winner = Null, !.countdown = Null,
                         !.players = scored, !.grid.squares = reset])
      h == FreshHandle(s1)
  IN [s1 EXCEPT !.gameInterval = <<h>>, !.timers = SetInterval(s1.timers, h, "round")]

\* a forEach that compares with >= and so keeps the last player with the
\* highest positive score
WinningPlayer_LastTop(ps) ==
  IF \E i \in 1..Len(ps) : ps[i].score > 0
  THEN CHOOSE i \in 1..Len(ps) :
         /\ ps[i].score > 0
         /\ \A j \in 1..Len(ps) : ps[j].score <= ps[i].score
         /\ \A j \in (i + 1)..Len(ps) : ps[j].score < ps[i].score
  ELSE 0

\* the forEach of endGame that keeps the first player with the highest
\* positive score: 0 when nobody has a positive score
WinningPlayer(ps) ==
  IF \E i \in 1..Len(ps) : ps[i].score > 0
  THEN CHOOSE i \in 1..Len(ps) :
         /\ ps[i].score > 0
         /\ \A j \in 1..Len(ps) : ps[j].score <= ps[i].score
         /\ \A j \in 1..(i - 1) : ps[j].score < ps[i].score
  ELSE 0

SentinelWinner == [id |-> AdminSentinel, name |-> AdminName, color |-> Black, score |-> 1]

\* winner after endGame's fallback for "no winning player"
EndGameWinner(st) ==
  LET w == WinningPlayer(st.players)
  IN IF w # 0 THEN <<[ref |-> w]>>
     ELSE IF st.adminId # Null
          THEN LET a == FindById(st.players, Val(st.adminId))
               IN IF a = 0 THEN <<Undefined>> ELSE <<[ref |-> a]>>
          ELSE <<[obj |-> SentinelWinner]>>

endGame(st) ==
  LET s1 == calculateScores([st EXCEPT !.timers = ClearInterval(st.timers, st.gameInterval)])
      s2 == broadcastGameState([s1 EXCEPT !.winner = EndGameWinner(s1)])
      h == FreshHandle(s2)
  IN [s2 EXCEPT !.countdown = <<CooldownSeconds>>,
                !.timers = SetInterval(s2.timers, h, "cooldown")]

\* a round timer that ends the round one tick late
RoundTick_OneLate(st) ==
  LET s1 == [st EXCEPT !.timeLeft = st.timeLeft - 1]
  IN IF s1.timeLeft < 0 THEN endGame(s1) ELSE broadcastGameState(s1)

\* the callback of the interval set in startGameTimer
RoundTick(st) ==
  LET s1 == [st EXCEPT !.timeLeft = st.timeLeft - 1]
  IN IF s1.timeLeft <= 0 THEN endGame(s1) ELSE broadcastGameState(s1)

\* the callback of the interval set in endGame; self is its own handle
CooldownTick(st, self) ==
  LET s1 == broadcastGameState([st EXCEPT !.countdown = Decrement(st.countdown)])
  IN IF Val(s1.countdown) <= 0
     THEN startGameTimer([s1 EXCEPT !.timers = ClearInterval(s1.timers, <<self>>)])
     ELSE s1

\* an interval that is still scheduled after its callback fires again after
\* the others
Reschedule(ts, t) ==
  IF ts # <<>> /\ Head(ts) = t THEN Append(Tail(ts), t) ELSE ts

----------------------------------------------------------------------------
(* src/index.js: the socket handlers *)

\* io.on('connection'): the first connection while nobody plays and nobody
\* is admin takes the admin role
onConnection(st, s) ==
  IF Len(st.players) = 0 /\ st.adminId = Null
  THEN [st EXCEPT !.adminId = <<s>>]
  ELSE st

\* a name check that never finds the name
NameTaken_Never(st, name) == FALSE

\* players.find((player) => player.name === data.name)
NameTaken(st, name) == \E i \in 1..Len(st.players) : st.players[i].name = name

\* the colours generateRandomColor may settle on for a non-admin that asked
\* for black: any colour no player has
RandomColors(st) ==
  {c \in HslColors : \A i \in 1..Len(st.players) : st.players[i].color # c}

\* the colour of the new player; rnd is the outcome of the random draw
JoinColor(st, s, color, rnd) ==
  IF <<s>> = st.adminId THEN Black
  ELSE IF color = Black THEN rnd
  ELSE color

\* socket.on('joinGame') past the name check
onJoinGame(st, s, name, color, rnd) ==
  LET newPlayer == [id |-> s, name |-> Substring15(name),
                    color |-> JoinColor(st, s, color, rnd),
                    score |-> IF <<s>> = st.adminId THEN 1 ELSE 0]
      s1 == [st EXCEPT !.players = Append(st.players, newPlayer)]
      s2 == IF s1.gameInterval = Null THEN startGameTimer(s1) ELSE s1
  IN broadcastGameState(calculateScores(s2))

\* claimSquare without the phase check
ClaimBlocked_Missing(st) == FALSE

\* if (countdown !== null || winner !== null) return;
ClaimBlocked(st) == st.countdown # Null \/ st.winner # Null

\* the admin-square check with the comparison turned round
AdminSquareGuard_Inverted(st, s, squareId) == squareId = 0 /\ <<s>> = st.adminId

\* if (squareId === 0 && socket.id !== adminId) return;
AdminSquareGuard(st, s, squareId) == squareId = 0 /\ <<s>> # st.adminId

\* the three early returns of socket.on('claimSquare')
ClaimRejected(st, s, squareId) ==
  \/ ClaimBlocked(st)
  \/ FindById(st.players, s) = 0
  \/ AdminSquareGuard(st, s, squareId)

\* grid[squareId] = {...}: writing at the length grows the array by one
SetSquare(g, squareId, square) ==
  [length |-> IF squareId < g.length THEN g.length ELSE squareId + 1,
   squares |-> [i \in (DOMAIN g.squares) \cup {squareId} |->
                  IF i = squareId THEN square ELSE g.squares[i]]]

\* socket.on('claimSquare') past the early returns
onClaimSquare(st, s, squareId) ==
  LET player == st.players[FindById(st.players, s)]
      square == [id |-> squareId, color |-> player.color,
                 ownerId |-> player.id, ownerName |-> player.name]
  IN broadcastGameState(calculateScores(
       [st EXCEPT !.grid = SetSquare(st.grid, squareId, square)]))

\* players.filter((player) => player.id !== socket.id)
Filtered(ps, s) ==
  LET keep(p) == p.id # s
  IN SelectSeq(ps, keep)

\* the winner object after the filter: a removed roster entry lives on as an
\* object outside the roster, a kept one moves up
WinnerAfterFilter(st, s) ==
  IF st.winner = Null \/ st.winner = <<Undefined>> THEN st.winner
  ELSE IF "obj" \in DOMAIN Val(st.winner) THEN st.winner
  ELSE LET i == Val(st.winner).ref
       IN IF st.players[i].id = s THEN <<[obj |-> st.players[i]]>>
          ELSE <<[ref |-> i - Cardinality({j \in 1..(i - 1) : st.players[j].id = s})]>>

\* a hand-off that promotes the last player of the roster, not the first
PromoteAdmin_Last(st) ==
  IF Len(st.players) = 0 THEN [st EXCEPT !.adminId = Null]
  ELSE LET a == st.players[Len(st.players)].id
           i == FindById(st.players, a)
       IN [st EXCEPT !.adminId = <<a>>,
                     !.players[i].color = Black,
                     !.grid.squares[0] =
                        [id |-> 0, color |-> Black, ownerId |-> a,
                         ownerName |-> st.players[i].name]]

\* the admin hand-off of socket.on('disconnect'), run when the admin left
PromoteAdmin(st) ==
  IF Len(st.players) = 0 THEN [st EXCEPT !.adminId = Null]
  ELSE LET a == st.players[1].id
           i == FindById(st.players, a)
       IN [st EXCEPT !.adminId = <<a>>,
                     !.players[i].color = Black,
                     !.grid.squares[0] =
                        [id |-> 0, color |-> Black, ownerId |-> a,
                         ownerName |-> st.players[i].name]]

\* a reset that leaves the winner of the interrupted cooldown in place
ResetSession_KeepsWinner(st) ==
  [st EXCEPT !.timers = ClearInterval(st.timers, st.gameInterval),
             !.gameInterval = Null,
             !.timeLeft = RoundSeconds,
             !.countdown = Null,
             !.grid.squares = [i \in DOMAIN st.grid.squares |->
                                 IF i = 0 THEN AdminSquare ELSE EmptySquare(i)]]

\* the reset of socket.on('disconnect') when the roster is empty
ResetSession(st) ==
  [st EXCEPT !.timers = ClearInterval(st.timers, st.gameInterval),
             !.gameInterval = Null,
             !.timeLeft = RoundSeconds,
             !.winner = Null,
             !.countdown = Null,
             !.grid.squares = [i \in DOMAIN st.grid.squares |->
                                 IF i = 0 THEN AdminSquare ELSE EmptySquare(i)]]

onDisconnect(st, s) ==
  LET s1 == [st EXCEPT !.players = Filtered(st.players, s),
                       !.winner = WinnerAfterFilter(st, s)]
      s2 == IF <<s>> = st.adminId THEN PromoteAdmin(s1) ELSE s1
      s3 == IF Len(s2.players) = 0 THEN ResetSession(s2) ELSE calculateScores(s2)
  IN broadcastGameState(s3)

----------------------------------------------------------------------------
(* The events of src/index.js *)

\* the event handled last: its kind, the socket it came from, the square it
\* named and the path its handler took
Event(op, s, squareId, result) ==
  [op |-> op, id |-> s, squareId |-> squareId, result |-> result]

NoSquare == 0 - 1

\* what the joinGame handler passes to the client's callback
NameTakenReply ==
  [success |-> FALSE,
   message |-> "This name is already taken. Please choose a different one."]

AdminNameReply ==
  [success |-> FALSE,
   message |-> "You cannot use the name \"Admin\". Please choose a different name."]

SuccessReply == [success |-> TRUE]

\* a joinGame event: also the name the client asked for and the reply
JoinEvent(s, name, result, reply) ==
  [op |-> "joinGame", id |-> s, squareId |-> NoSquare, result |-> result,
   name |-> name, reply |-> reply]

\* one more client event, within the bound
ClientEvent == events < MaxEvents /\ events' = events + 1

Connect ==
  /\ variant = "index"
  /\ ClientEvent
  /\ nextSocket < MaxConn
  /\ LET s == SocketName[nextSocket + 1]
     IN /\ sockets' = sockets \cup {s}
        /\ nextSocket' = nextSocket + 1
        /\ Commit(onConnection(State, s))
        /\ lastEvent' = Event("connect", s, NoSquare,
                              IF Len(players) = 0 /\ adminId = Null
                              THEN "admin" ELSE "guest")
  /\ UNCHANGED variant

\* joinGame with the name and the colour drawn from the given sets
JoinGameWith(names, colors) ==
  /\ variant = "index"
  /\ ClientEvent
  /\ \E s \in sockets, name \in names, color \in colors :
       IF NameTaken(State, name)
       THEN /\ lastEvent' = JoinEvent(s, name, "nameTaken", NameTakenReply)
            /\ Commit(State)
       ELSE \E rnd \in (IF <<s>> # adminId /\ color = Black
                        THEN RandomColors(State) ELSE {color}) :
              /\ lastEvent' = JoinEvent(s, name, "success", SuccessReply)
              /\ Commit(onJoinGame(State, s, name, color, rnd))
  /\ UNCHANGED <<variant, sockets, nextSocket>>

JoinGame == JoinGameWith(NameInputs, ColorInputs)

\* joinGame from clients that all ask for the same ordinary colour
JoinGamePlain == JoinGameWith(NameInputs, {"#ff0000"})

\* which return of socket.on('claimSquare') ends the handler
ClaimResult(st, s, squareId) ==
  IF ClaimBlocked(st) THEN "blocked"
  ELSE IF FindById(st.players, s) = 0 THEN "notPlayer"
  ELSE IF AdminSquareGuard(st, s, squareId) THEN "adminSquare"
  ELSE "accepted"

ClaimSquare ==
  /\ variant = "index"
  /\ ClientEvent
  /\ \E s \in sockets, squareId \in SquareInputs :
       /\ lastEvent' = Event("claimSquare", s, squareId, ClaimResult(State, s, squareId))
       /\ Commit(IF ClaimRejected(State, s, squareId) THEN State
                 ELSE onClaimSquare(State, s, squareId))
  /\ UNCHANGED <<variant, sockets, nextSocket>>

Disconnect ==
  /\ variant = "index"
  /\ ClientEvent
  /\ \E s \in sockets :
       /\ sockets' = sockets \ {s}
       /\ lastEvent' = Event("disconnect", s, NoSquare,
                             IF <<s>> # adminId THEN "left"
                             ELSE IF Len(Filtered(players, s)) > 0 THEN "promoted"
                             ELSE "adminLeft")
       /\ Commit(onDisconnect(State, s))
  /\ UNCHANGED <<variant, nextSocket>>

\* the round timer fires
RoundTimerFires ==
  /\ variant = "index"
  /\ timers # <<>>
  /\ Head(timers).kind = "round"
  /\ LET st == RoundTick(State)
     IN Commit([st EXCEPT !.timers = Reschedule(st.timers, Head(timers))])
  /\ lastEvent' = Event("roundTick", "", NoSquare,
                        IF timeLeft - 1 <= 0 THEN "endGame" ELSE "tick")
  /\ UNCHANGED <<variant, sockets, nextSocket, events>>

\* the cooldown ticker fires
CooldownTimerFires ==
  /\ variant = "index"
  /\ timers # <<>>
  /\ Head(timers).kind = "cooldown"
  /\ LET st == CooldownTick(State, Head(timers).id)
     IN Commit([st EXCEPT !.timers = Reschedule(st.timers, Head(timers))])
  /\ lastEvent' = Event("cooldownTick", "", NoSquare,
                        IF Val(Decrement(countdown)) <= 0 THEN "restart" ELSE "tick")
  /\ UNCHANGED <<variant, sockets, nextSocket, events>>

----------------------------------------------------------------------------
(* src/unnamed/part_000: the variant with a static admin player.  It has  *)
(* no adminId; the roster starts with adminPlayer and keeps it.           *)

adminPlayer ==
  [id |-> AdminSentinel, name |-> AdminName, color |-> Black, score |-> 1, isAdmin |-> TRUE]

startGameTimer_000(st) ==
  LET cleared == ClearInterval(st.timers, st.gameInterval)
      scored == [i \in 1..Len(st.players) |->
                   IF st.players[i].isAdmin THEN st.players[i]
                   ELSE [st.players[i] EXCEPT !.score = 0]]
      reset == [i \in DOMAIN st.grid.squares |->
                  IF i = 0 THEN AdminSquare ELSE EmptySquare(i)]
      s1 == broadcastGameState(
              [st EXCEPT !.timers = cleared, !.timeLeft = RoundSeconds,
                         !.winner = Null, !.countdown = Null,
                         !.players = scored, !.grid.squares = reset])
      h == FreshHandle(s1)
  IN [s1 EXCEPT !.gameInterval = <<h>>, !.timers = SetInterval(s1.timers, h, "round")]

endGame_000(st) ==
  LET s1 == calculateScores([st EXCEPT !.timers = ClearInterval(st.timers, st.gameInterval)])
      w == WinningPlayer(s1.players)
      s2 == broadcastGameState(
              [s1 EXCEPT !.winner = IF w = 0 THEN Null ELSE <<[ref |-> w]>>])
      h == FreshHandle(s2)
  IN [s2 EXCEPT !.countdown = <<CooldownSeconds>>,
                !.timers = SetInterval(s2.timers, h, "cooldown")]

RoundTick_000(st) ==
  LET s1 == [st EXCEPT !.timeLeft = st.timeLeft - 1]
  IN IF s1.timeLeft <= 0 THEN endGame_000(s1) ELSE broadcastGameState(s1)

CooldownTick_000(st, self) ==
  LET s1 == broadcastGameState([st EXCEPT !.countdown = Decrement(st.countdown)])
  IN IF Val(s1.countdown) <= 0
     THEN startGameTimer_000([s1 EXCEPT !.timers = ClearInterval(s1.timers, <<self>>)])
     ELSE s1

\* String.prototype.toLowerCase on the letters the inputs use
ToLowerCase(name) ==
  [i \in 1..Len(name) |->
     IF name[i] = "A" THEN "a"
     ELSE IF name[i] = "B" THEN "b"
     ELSE IF name[i] = "D" THEN "d"
     ELSE IF name[i] = "M" THEN "m"
     ELSE IF name[i] = "I" THEN "i"
     ELSE IF name[i] = "N" THEN "n"
     ELSE name[i]]

\* data.name.toLowerCase() === 'admin'
IsAdminName(name) == ToLowerCase(name) = <<"a", "d", "m", "i", "n">>

onJoinGame_000(st, s, name, color) ==
  LET newPlayer == [id |-> s, name |-> Substring15(name), color |-> color,
                    score |-> 0, isAdmin |-> FALSE]
      s1 == [st EXCEPT !.players = Append(st.players, newPlayer)]
      s2 == IF s1.gameInterval = Null THEN startGameTimer_000(s1) ELSE s1
  IN broadcastGameState(calculateScores(s2))

\* which return of socket.on('claimSquare') ends the handler
ClaimResult_000(st, s, squareId) ==
  IF st.countdown # Null \/ st.winner # Null \/ squareId = 0 THEN "blocked"
  ELSE IF FindById(st.players, s) = 0 THEN "notPlayer"
  ELSE "accepted"

onDisconnect_000(st, s) ==
  LET s1 == [st EXCEPT !.players = Filtered(st.players, s),
                       !.winner = WinnerAfterFilter(st, s)]
      s2 == IF Len(s1.players) = 0 THEN ResetSession(s1) ELSE calculateScores(s1)
  IN broadcastGameState(s2)

\* what clients of this variant send as a name
NameInputs_000 == NameInputs \cup {<<"a", "d", "m", "i", "n">>}

Connect_000 ==
  /\ variant = "part_000"
  /\ ClientEvent
  /\ nextSocket < MaxConn
  /\ LET s == SocketName[nextSocket + 1]
     IN /\ sockets' = sockets \cup {s}
        /\ nextSocket' = nextSocket + 1
        /\ lastEvent' = Event("connect", s, NoSquare, "guest")
  /\ UNCHANGED <<variant, players, grid, timeLeft, gameInterval, winner, countdown,
                 adminId, timers, lastBroadcast>>

JoinGame_000 ==
  /\ variant = "part_000"
  /\ ClientEvent
  /\ \E s \in sockets, name \in NameInputs_000, color \in ColorInputs :
       IF NameTaken(State, name)
       THEN /\ lastEvent' = JoinEvent(s, name, "nameTaken", NameTakenReply)
            /\ Commit(State)
       ELSE IF IsAdminName(name)
       THEN /\ lastEvent' = JoinEvent(s, name, "adminName", AdminNameReply)
            /\ Commit(State)
       ELSE /\ lastEvent' = JoinEvent(s, name, "success", SuccessReply)
            /\ Commit(onJoinGame_000(State, s, name, color))
  /\ UNCHANGED <<variant, sockets, nextSocket>>

ClaimSquare_000 ==
  /\ variant = "part_000"
  /\ ClientEvent
  /\ \E s \in sockets, squareId \in SquareInputs :
       /\ lastEvent' = Event("claimSquare", s, squareId, ClaimResult_000(State, s, squareId))
       /\ Commit(IF ClaimResult_000(State, s, squareId) = "accepted"
                 THEN onClaimSquare(State, s, squareId)
                 ELSE State)
  /\ UNCHANGED <<variant, sockets, nextSocket>>

Disconnect_000 ==
  /\ variant = "part_000"
  /\ ClientEvent
  /\ \E s \in sockets :
       /\ sockets' = sockets \ {s}
       /\ lastEvent' = Event("disconnect", s, NoSquare, "left")
       /\ Commit(onDisconnect_000(State, s))
  /\ UNCHANGED <<variant, nextSocket>>

RoundTimerFires_000 ==
  /\ variant = "part_000"
  /\ timers # <<>>
  /\ Head(timers).kind = "round"
  /\ LET st == RoundTick_000(State)
     IN Commit([st EXCEPT !.timers = Reschedule(st.timers, Head(timers))])
  /\ lastEvent' = Event("roundTick", "", NoSquare,
                        IF timeLeft - 1 <= 0 THEN "endGame" ELSE "tick")
  /\ UNCHANGED <<variant, sockets, nextSocket, events>>

CooldownTimerFires_000 ==
  /\ variant = "part_000"
  /\ timers # <<>>
  /\ Head(timers).kind = "cooldown"
  /\ LET st == CooldownTick_000(State, Head(timers).id)
     IN Commit([st EXCEPT !.timers = Reschedule(st.timers, Head(timers))])
  /\ lastEvent' = Event("cooldownTick", "", NoSquare,
                        IF Val(Decrement(countdown)) <= 0 THEN "restart" ELSE "tick")
  /\ UNCHANGED <<variant, sockets, nextSocket, events>>

----------------------------------------------------------------------------
(* Specifications *)

Init ==
  /\ events = 0
  /\ variant = "index"
  /\ sockets = {}
  /\ nextSocket = 0
  /\ players = <<>>
  /\ grid = InitialGrid
  /\ timeLeft = RoundSeconds
  /\ gameInterval = Null
  /\ winner = Null
  /\ countdown = Null
  /\ adminId = Null
  /\ timers = <<>>
  /\ lastBroadcast = Null
  /\ lastEvent = Event("init", "", NoSquare, "")

Next ==
  \/ Connect
  \/ JoinGame
  \/ ClaimSquare
  \/ Disconnect
  \/ RoundTimerFires
  \/ CooldownTimerFires

Spec == Init /\ [][Next]_vars

\* Three sockets have connected to a fresh server and nothing else has
\* happened: the first holds the admin role.  From here the admin can leave
\* two other players behind within the event bound; the clients only join
\* and leave.
InitThreeSockets ==
  /\ events = 0
  /\ variant = "index"
  /\ sockets = {SocketName[1], SocketName[2], SocketName[3]}
  /\ nextSocket = 3
  /\ players = <<>>
  /\ grid = InitialGrid
  /\ timeLeft = RoundSeconds
  /\ gameInterval = Null
  /\ winner = Null
  /\ countdown = Null
  /\ adminId = <<SocketName[1]>>
  /\ timers = <<>>
  /\ lastBroadcast = Null
  /\ lastEvent = Event("connect", SocketName[3], NoSquare, "guest")

NextThreeSockets ==
  \/ JoinGamePlain
  \/ Disconnect
  \/ RoundTimerFires
  \/ CooldownTimerFires

SpecThreeSockets == InitThreeSockets /\ [][NextThreeSockets]_vars

\* the state after part_000 has loaded
Init_000 ==
  /\ events = 0
  /\ variant = "part_000"
  /\ sockets = {}
  /\ nextSocket = 0
  /\ players = <<adminPlayer>>
  /\ grid = InitialGrid
  /\ timeLeft = RoundSeconds
  /\ gameInterval = Null
  /\ winner = Null
  /\ countdown = Null
  /\ adminId = Null
  /\ timers = <<>>
  /\ lastBroadcast = Null
  /\ lastEvent = Event("init", "", NoSquare, "")

Next_000 ==
  \/ Connect_000
  \/ JoinGame_000
  \/ ClaimSquare_000
  \/ Disconnect_000
  \/ RoundTimerFires_000
  \/ CooldownTimerFires_000

\* either variant of the server
InitBoth == Init \/ Init_000

NextBoth == Next \/ Next_000

SpecBoth == InitBoth /\ [][NextBoth]_vars

----------------------------------------------------------------------------
(* Notions the claims use *)

RoundTimers == {i \in 1..Len(timers) : timers[i].kind = "round"}

CooldownTickers == {i \in 1..Len(timers) : timers[i].kind = "cooldown"}

\* Lobby as the session data show it: nothing scheduled, everything reset
Lobby ==
  /\ RoundTimers = {}
  /\ CooldownTickers = {}
  /\ timeLeft = RoundSeconds
  /\ winner = Null
  /\ countdown = Null

\* the phase as the session data show it
Phase ==
  IF Len(players) = 0 THEN "Lobby"
  ELSE IF countdown # Null \/ winner # Null THEN "Cooldown"
  ELSE "Active"

\* number of squares of the whole array whose ownerId is id
CellsOwnedBy(id) == Cardinality({i \in Indices(grid) : GridAt(grid, i).ownerId = id})

\* the socket holds the admin role (no socket does in part_000)
IsAdminSocket(s) == variant = "index" /\ adminId = <<s>>

\* the roster entry is the admin
IsAdminPlayer(p) == IF variant = "index" THEN adminId = <<p.id>> ELSE p.isAdmin

InRoster(s) == FindById(players, s) # 0

\* a roster player who owns cell 0 is the admin
Cell0OwnerIsAdmin ==
  \A i \in 1..Len(players) :
    players[i].id = GridAt(grid, 0).ownerId => IsAdminPlayer(players[i])

----------------------------------------------------------------------------
(* The claims *)

\* C1: after every handled event the session is in Lobby (no round timer and
\* no cooldown ticker scheduled, timeLeft = 60, winner = null, countdown =
\* null) if and only if the roster is empty.
C1_LobbyIffRosterEmpty == Lobby <=> Len(players) = 0

\* C2: at most one round timer and at most one cooldown ticker is scheduled,
\* the round timer is scheduled exactly when the phase is Active, and a round
\* timer and a cooldown ticker are never scheduled together.
C2_TimersMatchPhase ==
  /\ Cardinality(RoundTimers) <= 1
  /\ Cardinality(CooldownTickers) <= 1
  /\ (RoundTimers # {}) <=> (Phase = "Active")
  /\ ~(RoundTimers # {} /\ CooldownTickers # {})

\* C3: after every handled event every roster player's score equals the
\* number of grid cells whose ownerId is that player's id.
C3_ScoreIsOwnedCount ==
  variant = "index" =>
    \A i \in 1..Len(players) : players[i].score = CellsOwnedBy(players[i].id)

\* C3 witness: the cooldown ticker has restarted the round, where the admin's
\* score is written as 1 without a recount, and a player holds that score
C3_Witness ==
  /\ lastEvent.op = "cooldownTick"
  /\ lastEvent.result = "restart"
  /\ \E i \in 1..Len(players) : adminId = <<players[i].id>> /\ players[i].score = 1

\* C4: a claimSquare from the connection that holds adminId for a cell other
\* than 0 is rejected and changes no cell.
C4_AdminClaimsOnlyCell0 ==
  [][(/\ lastEvent'.op = "claimSquare"
      /\ adminId = <<lastEvent'.id>>
      /\ lastEvent'.squareId # 0) => grid' = grid]_vars

\* C5: a claimSquare whose cellId is outside 0..99 changes nothing: the grid
\* still has exactly 100 cells with ids 0..99, each cell and every score as
\* before.
C5_OutOfRangeClaimIsNoOp ==
  [][(/\ lastEvent'.op = "claimSquare"
      /\ lastEvent'.squareId \notin 0..(GridSize - 1))
     => /\ grid' = grid
        /\ grid'.length = GridSize
        /\ \A i \in Indices(grid') : GridAt(grid', i).id = i
        /\ players' = players]_vars

\* C6: a claimSquare handled while countdown is non-null or winner is
\* non-null changes no cell of the grid, whoever sends it and whatever the
\* cellId.
C6_NoClaimInCooldown ==
  [][(/\ variant = "index"
      /\ lastEvent'.op = "claimSquare"
      /\ (countdown # Null \/ winner # Null)) => grid' = grid]_vars

\* C6 witness: a roster player's claim arrived during the cooldown
C6_Witness ==
  /\ variant = "index"
  /\ lastEvent.op = "claimSquare"
  /\ InRoster(lastEvent.id)
  /\ countdown # Null
  /\ winner # Null

C8_AdminHandOff ==
  [][(/\ variant = "index"
      /\ lastEvent'.op = "disconnect"
      /\ adminId = <<lastEvent'.id>>
      /\ Len(players') > 0)
     => /\ adminId' = <<players'[1].id>>
        /\ adminId' # adminId
        /\ players'[1].color = Black
        /\ GridAt(grid', 0).ownerId = players'[1].id
        /\ GridAt(grid', 0).ownerName = players'[1].name]_vars

\* C8 witness: the admin left two players of different sockets behind, and
\* the admin role moved
C8_Witness ==
  /\ lastEvent.op = "disconnect"
  /\ lastEvent.result = "promoted"
  /\ Len(players) >= 2
  /\ players[1].id # players[2].id
  /\ adminId # Null

\* C9: whenever the roster is non-empty, adminId is non-null and is the id of
\* a connected socket.
C9_AdminWhileRosterNonEmpty ==
  (variant = "index" /\ Len(players) > 0) =>
    (adminId # Null /\ Val(adminId) \in sockets)

\* C10: after every handled event cell 0 is black, its ownerId is adminId
\* whenever adminId is non-null, and it is the sentinel 'admin' only when
\* adminId is null.
C10_Cell0FollowsAdmin ==
  variant = "index" =>
    /\ GridAt(grid, 0).color = Black
    /\ adminId # Null => GridAt(grid, 0).ownerId = Val(adminId)
    /\ GridAt(grid, 0).ownerId = AdminSentinel => adminId = Null

----------------------------------------------------------------------------
(* Notions of the claims about round end, joins and broadcasts *)

\* the object the winner variable refers to in the current state
WinnerObject == WinnerValue(State)

\* the winner is a roster entry that owns the most cells, the earliest such
WinnerIsFirstTopOwner ==
  /\ winner # Null
  /\ "ref" \in DOMAIN Val(winner)
  /\ LET w == Val(winner).ref
     IN /\ w \in 1..Len(players)
        /\ \A j \in 1..Len(players) :
             CellsOwnedBy(players[j].id) <= CellsOwnedBy(players[w].id)
        /\ \A j \in 1..(w - 1) :
             CellsOwnedBy(players[j].id) < CellsOwnedBy(players[w].id)

\* the step is a client event (not a timer callback) of src/index.js
IsClientStep == events' = events + 1

\* C11: when the last roster player disconnects, in any phase, then at the
\* end of that disconnect handling no round timer is scheduled, timeLeft =
\* 60, winner = null, countdown = null, cell 0 is black and owned by the
\* sentinel admin, and every cell 1..99 is unclaimed and white.
C11_LastPlayerLeavesResets ==
  [][(/\ variant = "index"
      /\ lastEvent'.op = "disconnect"
      /\ Len(players) > 0
      /\ Len(players') = 0)
     => /\ RoundTimers' = {}
        /\ timeLeft' = RoundSeconds
        /\ winner' = Null
        /\ countdown' = Null
        /\ GridAt(grid', 0) = AdminSquare
        /\ \A i \in 1..(GridSize - 1) : GridAt(grid', i) = EmptySquare(i)]_vars

\* C11 witness: one socket connected, joined, played the round to its end and
\* left during the cooldown (three client events, the cooldown ticker of that
\* round is still scheduled)
C11_Witness ==
  /\ variant = "index"
  /\ lastEvent.op = "disconnect"
  /\ events = 3
  /\ Len(players) = 0
  /\ CooldownTickers # {}
  /\ winner = Null

\* C12: at round end, if no roster player has a score greater than 0 and
\* there is an admin, winner is the identity whose id equals adminId, whether
\* or not that admin has joined the roster.
C12_AdminWinsScorelessRound ==
  [][(/\ variant = "index"
      /\ lastEvent'.op = "roundTick"
      /\ timeLeft = 1
      /\ adminId # Null
      /\ \A i \in 1..Len(players') : players'[i].score <= 0)
     => /\ WinnerObject' # Null
        /\ WinnerObject' # <<Undefined>>
        /\ Val(WinnerObject').id = Val(adminId)]_vars

\* C13: at round end, when at least one roster player owns a cell, winner is
\* a roster player whose owned-cell count is the maximum over the roster, and
\* among the players tied for that maximum the earliest in roster order.
C13_WinnerIsFirstTopOwner ==
  [][(/\ variant = "index"
      /\ lastEvent'.op = "roundTick"
      /\ timeLeft = 1
      /\ \E i \in 1..Len(players) : CellsOwnedBy(players[i].id) > 0)
     => WinnerIsFirstTopOwner']_vars

\* C13 witness: the round ended with the first two roster entries tied on a
\* positive score, and the first of them is the winner
C13_Witness ==
  /\ variant = "index"
  /\ lastEvent.op = "roundTick"
  /\ lastEvent.result = "endGame"
  /\ countdown = <<CooldownSeconds>>
  /\ Len(players) >= 2
  /\ players[1].score > 0
  /\ players[1].score = players[2].score
  /\ winner = <<[ref |-> 1]>>

SessionSnapshot == Snapshot(State)

\* C15: no two roster players have the same stored name, the stored name
\* being the requested name cut to its first 15 characters.
C15_StoredNamesUnique ==
  variant = "index" =>
    \A i, j \in 1..Len(players) : i < j => players[i].name # players[j].name

\* C16: no two roster players have the same color; stated here for players
\* of different connections, whatever colors the clients supplied.
C16_ColorsUnique ==
  variant = "index" =>
    \A i, j \in 1..Len(players) :
      (i < j /\ players[i].id # players[j].id) => players[i].color # players[j].color

\* C17: a joinGame whose name equals the name of a roster player is answered
\* with {success: false, message: 'This name is already taken. Please choose
\* a different one.'} and leaves the roster (scores included), grid,
\* timeLeft, countdown, winner, adminId and the timers unchanged.
C17_TakenNameIsRefused ==
  [][(/\ variant = "index"
      /\ lastEvent'.op = "joinGame"
      /\ \E i \in 1..Len(players) : players[i].name = lastEvent'.name)
     => /\ lastEvent'.reply = NameTakenReply
        /\ UNCHANGED <<players, grid, timeLeft, countdown, winner, adminId,
                       timers, gameInterval>>]_vars

\* C17 witness: while a round runs a socket asked for a name that a roster
\* player holds
C17_Witness ==
  /\ variant = "index"
  /\ lastEvent.op = "joinGame"
  /\ lastEvent.result = "nameTaken"
  /\ \E i \in 1..Len(players) : players[i].name = lastEvent.name
  /\ RoundTimers # {}

\* C18: at the end of every handled event that changed the grid, the
\* players, timeLeft, countdown or winner, the snapshot broadcast last
\* equals the session state in all five fields.
C18_BroadcastIsCurrent ==
  [][(/\ variant = "index"
      /\ SessionSnapshot' # SessionSnapshot) => lastBroadcast' = SessionSnapshot']_vars

\* C19: every cell whose ownerId is the id of a roster player has that
\* player's name as ownerName and that player's current color as color (the
\* player being the first roster entry with that id).
C19_CellsShowOwner ==
  variant = "index" =>
    \A i \in Indices(grid) :
      LET k == FindById(players, GridAt(grid, i).ownerId)
      IN k # 0 => /\ GridAt(grid, i).ownerName = players[k].name
                  /\ GridAt(grid, i).color = players[k].color

\* C20: no two roster entries have the same id.
C20_OneEntryPerConnection ==
  variant = "index" =>
    \A i, j \in 1..Len(players) : i < j => players[i].id # players[j].id

====
